---- MODULE Spec2Model ----
(***************************************************************************)
(* The in-memory CRUD service of nodejs-swagger-api.                       *)
(*                                                                         *)
(*   src/main.js   one Express process holding two collections, users      *)
(*                 (seed id 10) and items with a discription (seed ids 1   *)
(*                 and 2), with list/get/post/put/delete handlers on each. *)
(*   src/index.js  the older Express process holding items with a name     *)
(*                 only (lines 1..234; the file goes on with a second,     *)
(*                 hello-world server that has no collection).             *)
(*                                                                         *)
(* A JavaScript value is a record [t, s, n]: its type tag, its string      *)
(* payload and its numeric payload, so that truthiness (!x, x || y) and    *)
(* strict equality (===) are computed as JavaScript computes them.         *)
(* A path segment is a sequence of one-character strings, and parseInt     *)
(* and String(n) are computed digit by digit.                              *)
(***************************************************************************)
EXTENDS Integers, Sequences, FiniteSets, TLC

VARIABLES
    users,      \* main.js:11   let users = [...]
    items,      \* main.js:297  let items = [...]   (name and discription)
    idxItems,   \* index.js:11  let items = [...]   (name only)
    resource,   \* the collection this run's requests address
    created,    \* number of successful creates so far (history)
    deleted,    \* TRUE once a delete has succeeded (history)
    last        \* the last request and the response it got

vars == <<users, items, idxItems, resource, created, deleted, last>>

-----------------------------------------------------------------------------
(* Bounds *)

\* successful creates per run of Spec
MaxCreates == 2
\* successful creates per run of SpecCreates (create requests only)
MaxRun == 9

-----------------------------------------------------------------------------
(* JavaScript values *)

Undef == [t |-> "undefined", s |-> "", n |-> 0]
Str(x) == [t |-> "string", s |-> x, n |-> 0]
Num(k) == [t |-> "number", s |-> "", n |-> k]

\* !v : undefined, the empty string and 0 are falsy
Falsy(v) ==
    \/ v.t = "undefined"
    \/ (v.t = "string" /\ v.s = "")
    \/ (v.t = "number" /\ v.n = 0)

\* OrElse as a ?? b: only undefined gives way to b
OrElseNullish(a, b) == IF a.t = "undefined" THEN b ELSE a

\* a || b
OrElse(a, b) == IF Falsy(a) THEN b ELSE a

-----------------------------------------------------------------------------
(* parseInt(string, 10) and String(number) *)

Digits == <<"0", "1", "2", "3", "4", "5", "6", "7", "8", "9">>

IsDigit(c) == \E d \in 1..10 : Digits[d] = c

DigitVal(c) == (CHOOSE d \in 1..10 : Digits[d] = c) - 1

IsSpace(c) == c = " "

RECURSIVE SkipSpaces(_)
SkipSpaces(s) ==
    IF s # <<>> /\ IsSpace(Head(s)) THEN SkipSpaces(Tail(s)) ELSE s

\* value of the longest prefix of digits of s, continuing from acc
RECURSIVE DigitRun(_, _)
DigitRun(s, acc) ==
    IF s # <<>> /\ IsDigit(Head(s))
    THEN DigitRun(Tail(s), 10 * acc + DigitVal(Head(s)))
    ELSE acc

NaN == [nan |-> TRUE, val |-> 0]

\* parseInt(s, 10): leading blanks, an optional sign, then as many digits as
\* there are; NaN when there is no digit at that place
ParseInt(str) ==
    LET s == SkipSpaces(str)
        neg == s # <<>> /\ Head(s) = "-"
        signed == s # <<>> /\ Head(s) \in {"-", "+"}
        body == IF signed THEN Tail(s) ELSE s
    IN  IF body = <<>> \/ ~IsDigit(Head(body))
        THEN NaN
        ELSE [nan |-> FALSE,
              val |-> IF neg THEN 0 - DigitRun(body, 0) ELSE DigitRun(body, 0)]

\* String(undefined), which parseInt sees when the route declares no :id
UndefinedChars == <<"u", "n", "d", "e", "f", "i", "n", "e", "d">>

\* id === parseInt(...): NaN equals nothing
StrictEq(id, p) == ~p.nan /\ p.val = id

\* String(n) for n >= 0, the path segment a client writes for id n
RECURSIVE NumToChars(_)
NumToChars(n) ==
    IF n < 10 THEN <<Digits[n + 1]>>
    ELSE NumToChars(n \div 10) \o <<Digits[(n % 10) + 1]>>

-----------------------------------------------------------------------------
(* Array primitives *)

\* Array.prototype.findIndex with the handlers' predicate: the 0-based index
\* of the first element whose id === p, or -1
FindIndex(coll, p) ==
    IF \E i \in 1..Len(coll) : StrictEq(coll[i].id, p)
    THEN (CHOOSE i \in 1..Len(coll) :
            /\ StrictEq(coll[i].id, p)
            /\ \A j \in 1..(i - 1) : ~StrictEq(coll[j].id, p)) - 1
    ELSE -1

\* Array.prototype.find with the same predicate. It returns a reference to
\* the element, which the update handlers assign through: the reference is
\* the element's position (-1 for undefined)
Find(coll, p) == FindIndex(coll, p)

\* Splice as a swap-remove: the last element takes the removed one's place
SpliceSwapLast(coll, index) ==
    [j \in 1..(Len(coll) - 1) |-> IF j = index + 1 THEN coll[Len(coll)] ELSE coll[j]]

\* coll.splice(index, 1)
Splice(coll, index) ==
    [j \in 1..(Len(coll) - 1) |-> IF j <= index THEN coll[j] ELSE coll[j + 1]]

\* NewId as one more than the largest id in use
NewIdAfterMax(coll) ==
    IF coll = <<>> THEN 1
    ELSE (CHOOSE m \in {coll[i].id : i \in 1..Len(coll)} :
            \A i \in 1..Len(coll) : coll[i].id <= m) + 1

\* coll.length + 1
NewId(coll) == Len(coll) + 1

\* what res.json sends of an entity: born is history, not a field of the code
View(e) == [f \in (DOMAIN e) \ {"born"} |-> e[f]]

Views(coll) == [i \in 1..Len(coll) |-> View(coll[i])]

-----------------------------------------------------------------------------
(* Seeds *)

UserFields == {"username", "firstName", "lastName", "email", "password", "phone"}

\* main.js:11-22
SeedUsers ==
    << [id |-> 10, username |-> Str("theUser"), firstName |-> Str("John"),
        lastName |-> Str("James"), email |-> Str("john@email.com"),
        password |-> Str("12345"), phone |-> Str("12345"),
        userStatus |-> Num(1), born |-> 1] >>

\* main.js:297-300
SeedItems ==
    << [id |-> 1, name |-> Str("Item 1"), discription |-> Str("product info"),
        born |-> 1],
       [id |-> 2, name |-> Str("Item 2"), discription |-> Str("product info"),
        born |-> 2] >>

\* index.js:11-14
SeedIdxItems ==
    << [id |-> 1, name |-> Str("Item 1"), born |-> 1],
       [id |-> 2, name |-> Str("Item 2"), born |-> 2] >>

\* a response: res.status(status).json(...), the JSON being either
\* {message} or the entities in data (one for an entity, all for a list)
Reply(coll, status, message, data) ==
    [coll |-> coll, status |-> status, message |-> message, data |-> data]

-----------------------------------------------------------------------------
(* main.js, users *)

\* UserFieldMissing with the check of phone left out
UserFieldMissingButPhone(body) ==
    \/ Falsy(body.username) \/ Falsy(body.firstName) \/ Falsy(body.lastName)
    \/ Falsy(body.email) \/ Falsy(body.password)

\* main.js:153 and 208
UserFieldMissing(body) ==
    \/ Falsy(body.username) \/ Falsy(body.firstName) \/ Falsy(body.lastName)
    \/ Falsy(body.email) \/ Falsy(body.password) \/ Falsy(body.phone)

\* GET /api/v1/users
ListUsersH(coll) == Reply(coll, 200, "", Views(coll))

\* GET /api/v1/users/:id
GetUserH(coll, path) ==
    LET user == Find(coll, ParseInt(path))
    IN  IF user = -1 THEN Reply(coll, 404, "User not found", <<>>)
        ELSE Reply(coll, 200, "", <<View(coll[user + 1])>>)

\* POST /api/v1/users
PostUserH(coll, body, stamp) ==
    IF UserFieldMissing(body)
    THEN Reply(coll, 400, "All fields are required", <<>>)
    ELSE LET newUser ==
                 [id |-> NewId(coll),
                  username |-> body.username,
                  firstName |-> body.firstName,
                  lastName |-> body.lastName,
                  email |-> body.email,
                  password |-> body.password,
                  phone |-> body.phone,
                  userStatus |-> OrElse(body.userStatus, Num(1)),
                  born |-> stamp]
         IN  Reply(Append(coll, newUser), 201, "", <<View(newUser)>>)

\* PUT /api/v1/users/:id
PutUserH(coll, path, body) ==
    LET user == Find(coll, ParseInt(path))
    IN  IF user = -1 THEN Reply(coll, 404, "User not found", <<>>)
        ELSE IF UserFieldMissing(body)
        THEN Reply(coll, 400, "All fields are required", <<>>)
        ELSE LET updated ==
                     [coll[user + 1] EXCEPT
                        !.username = body.username,
                        !.firstName = body.firstName,
                        !.lastName = body.lastName,
                        !.email = body.email,
                        !.password = body.password,
                        !.phone = body.phone,
                        !.userStatus = OrElse(body.userStatus, Num(1))]
             IN  Reply([coll EXCEPT ![user + 1] = updated], 200, "",
                       <<View(updated)>>)

\* DELETE /api/v1/users/:id
DeleteUserH(coll, path) ==
    LET index == FindIndex(coll, ParseInt(path))
    IN  IF index = -1 THEN Reply(coll, 404, "User not found", <<>>)
        ELSE Reply(Splice(coll, index), 200, "User deleted", <<>>)

-----------------------------------------------------------------------------
(* main.js, items *)

\* main.js:407 and 450
ItemFieldMissing(body) == Falsy(body.name) \/ Falsy(body.discription)

\* GET /api/v1/items
ListItemsH(coll) == Reply(coll, 200, "", Views(coll))

\* GET /api/v1/items/:id
GetItemH(coll, path) ==
    LET item == Find(coll, ParseInt(path))
    IN  IF item = -1 THEN Reply(coll, 404, "Item not found", <<>>)
        ELSE Reply(coll, 200, "", <<View(coll[item + 1])>>)

\* POST /api/v1/items
PostItemH(coll, body, stamp) ==
    IF ItemFieldMissing(body)
    THEN Reply(coll, 400, "All fields is required", <<>>)
    ELSE LET newItem == [id |-> NewId(coll), name |-> body.name,
                         discription |-> body.discription, born |-> stamp]
         IN  Reply(Append(coll, newItem), 201, "", <<View(newItem)>>)

\* PutItemH as remove-and-push: the updated item is re-inserted at the end
PutItemHReinsert(coll, path, body) ==
    LET item == Find(coll, ParseInt(path))
    IN  IF item = -1 THEN Reply(coll, 404, "Item not found", <<>>)
        ELSE IF ItemFieldMissing(body)
        THEN Reply(coll, 400, "All fields is required", <<>>)
        ELSE LET updated == [coll[item + 1] EXCEPT
                               !.name = body.name,
                               !.discription = body.discription]
             IN  Reply(Append(Splice(coll, item), updated), 200, "",
                       <<View(updated)>>)

\* PUT /api/v1/items/:id
PutItemH(coll, path, body) ==
    LET item == Find(coll, ParseInt(path))
    IN  IF item = -1 THEN Reply(coll, 404, "Item not found", <<>>)
        ELSE IF ItemFieldMissing(body)
        THEN Reply(coll, 400, "All fields is required", <<>>)
        ELSE LET updated == [coll[item + 1] EXCEPT
                               !.name = body.name,
                               !.discription = body.discription]
             IN  Reply([coll EXCEPT ![item + 1] = updated], 200, "",
                       <<View(updated)>>)

\* DELETE /api/v1/items/:id
DeleteItemH(coll, path) ==
    LET index == FindIndex(coll, ParseInt(path))
    IN  IF index = -1 THEN Reply(coll, 404, "Item not found", <<>>)
        ELSE Reply(Splice(coll, index), 200, "Item deleted", <<>>)

-----------------------------------------------------------------------------
(* index.js, items *)

\* index.js:116 and 159
IdxFieldMissing(body) == Falsy(body.name)

\* The get and put routes of index.js are the literal paths
\* /api/v1/items/get and /api/v1/items/put: they declare no :id, so
\* req.params.id is undefined there, and any other last segment matches no
\* route and gets Express's own 404.
GetSegment == <<"g", "e", "t">>
PutSegment == <<"p", "u", "t">>

\* GET /api/v1/items
IdxListH(coll) == Reply(coll, 200, "", Views(coll))

\* GET /api/v1/items/<segment>
IdxGetH(coll, segment) ==
    IF segment # GetSegment THEN Reply(coll, 404, "Cannot GET", <<>>)
    ELSE LET item == Find(coll, ParseInt(UndefinedChars))
         IN  IF item = -1 THEN Reply(coll, 404, "Item not found", <<>>)
             ELSE Reply(coll, 200, "", <<View(coll[item + 1])>>)

\* POST /api/v1/items
IdxPostH(coll, body, stamp) ==
    IF IdxFieldMissing(body)
    THEN Reply(coll, 400, "Name is required", <<>>)
    ELSE LET newItem == [id |-> NewId(coll), name |-> body.name, born |-> stamp]
         IN  Reply(Append(coll, newItem), 201, "", <<View(newItem)>>)

\* PUT /api/v1/items/<segment>
IdxPutH(coll, segment, body) ==
    IF segment # PutSegment THEN Reply(coll, 404, "Cannot PUT", <<>>)
    ELSE LET item == Find(coll, ParseInt(UndefinedChars))
         IN  IF item = -1 THEN Reply(coll, 404, "Item not found", <<>>)
             ELSE IF IdxFieldMissing(body)
             THEN Reply(coll, 400, "Name is required", <<>>)
             ELSE LET updated == [coll[item + 1] EXCEPT !.name = body.name]
                  IN  Reply([coll EXCEPT ![item + 1] = updated], 200, "",
                            <<View(updated)>>)

\* DELETE /api/v1/items/:id
IdxDeleteH(coll, path) ==
    LET index == FindIndex(coll, ParseInt(path))
    IN  IF index = -1 THEN Reply(coll, 404, "Item not found", <<>>)
        ELSE Reply(Splice(coll, index), 200, "Item deleted", <<>>)

-----------------------------------------------------------------------------
(* Requests *)

\* last path segments a client sends
Paths ==
    { <<"1">>, <<"2">>, <<"3">>, <<"1", "0">>, <<"2", "x">>, <<"a", "b", "c">> }

\* last path segments sent to index.js, whose get and put routes are literal
IdxSegments == Paths \cup {GetSegment, PutSegment}

UserBody(v, status) ==
    [username |-> v, firstName |-> v, lastName |-> v, email |-> v,
     password |-> v, phone |-> v, userStatus |-> status]

ValidUserBodies ==
    { UserBody(Str("a"), Undef), UserBody(Str("a"), Num(0)),
      UserBody(Str("b"), Num(2)) }

\* one required field absent, or one required field empty
InvalidUserBodies ==
    { [UserBody(Str("a"), Undef) EXCEPT ![f] = Undef] :
        f \in {"username", "lastName", "password"} }
    \cup { [UserBody(Str("b"), Num(2)) EXCEPT ![f] = Str("")] :
        f \in {"firstName", "email", "phone"} }

UserBodies == ValidUserBodies \cup InvalidUserBodies

ItemBodies ==
    { [name |-> Str("a"), discription |-> Str("c")],
      [name |-> Str("b"), discription |-> Str("d")],
      [name |-> Undef, discription |-> Str("c")],
      [name |-> Str(""), discription |-> Str("d")],
      [name |-> Str("a"), discription |-> Undef],
      [name |-> Str("b"), discription |-> Str("")] }

IdxBodies == { [name |-> v] : v \in {Str("a"), Str("b"), Undef, Str("")} }

Kinds == {"users", "items", "index"}

Coll(kind) ==
    CASE kind = "users" -> users
      [] kind = "items" -> items
      [] kind = "index" -> idxItems

Seed(kind) ==
    CASE kind = "users" -> SeedUsers
      [] kind = "items" -> SeedItems
      [] kind = "index" -> SeedIdxItems

\* the request and its response, as the client sees them
Exchange(op, kind, path, body, r) ==
    [op |-> op, kind |-> kind, path |-> path, body |-> body,
     status |-> r.status, message |-> r.message, data |-> r.data]

NoBody == [name |-> Undef]

-----------------------------------------------------------------------------
(* State machine *)

\* Every handler names one array and touches no other, and index.js is a
\* process of its own: a run addresses the collection chosen in resource, the
\* other two staying at their seed. Each handler is one step: Express runs it
\* to completion, and the step records the request and its response in last.
\* created and born (the stamp of an entity's insertion) are history.

Init ==
    /\ users = SeedUsers
    /\ items = SeedItems
    /\ idxItems = SeedIdxItems
    /\ resource \in Kinds
    /\ created = 0
    /\ deleted = FALSE
    /\ last = [op |-> "none", kind |-> resource, path |-> <<>>, body |-> NoBody,
               status |-> 0, message |-> "", data |-> <<>>]

\* history kept beside a response r to a request on a collection
Created(r) == IF r.status = 201 THEN created + 1 ELSE created

Stamp(kind) == Len(Seed(kind)) + created + 1

ListUsers ==
    /\ resource = "users"
    /\ last' = Exchange("list", "users", <<>>, NoBody, ListUsersH(users))
    /\ UNCHANGED <<users, items, idxItems, resource, created, deleted>>

GetUser(path) ==
    /\ resource = "users"
    /\ last' = Exchange("get", "users", path, NoBody, GetUserH(users, path))
    /\ UNCHANGED <<users, items, idxItems, resource, created, deleted>>

PostUser(body, cap) ==
    /\ resource = "users"
    /\ created < cap
    /\ \E r \in {PostUserH(users, body, Stamp("users"))} :
           /\ users' = r.coll
           /\ created' = Created(r)
           /\ last' = Exchange("post", "users", <<>>, body, r)
    /\ UNCHANGED <<items, idxItems, resource, deleted>>

PutUser(path, body) ==
    /\ resource = "users"
    /\ \E r \in {PutUserH(users, path, body)} :
           /\ users' = r.coll
           /\ last' = Exchange("put", "users", path, body, r)
    /\ UNCHANGED <<items, idxItems, resource, created, deleted>>

DeleteUser(path) ==
    /\ resource = "users"
    /\ \E r \in {DeleteUserH(users, path)} :
           /\ users' = r.coll
           /\ deleted' = (deleted \/ r.status = 200)
           /\ last' = Exchange("delete", "users", path, NoBody, r)
    /\ UNCHANGED <<items, idxItems, resource, created>>

ListItems ==
    /\ resource = "items"
    /\ last' = Exchange("list", "items", <<>>, NoBody, ListItemsH(items))
    /\ UNCHANGED <<users, items, idxItems, resource, created, deleted>>

GetItem(path) ==
    /\ resource = "items"
    /\ last' = Exchange("get", "items", path, NoBody, GetItemH(items, path))
    /\ UNCHANGED <<users, items, idxItems, resource, created, deleted>>

PostItem(body) ==
    /\ resource = "items"
    /\ created < MaxCreates
    /\ \E r \in {PostItemH(items, body, Stamp("items"))} :
           /\ items' = r.coll
           /\ created' = Created(r)
           /\ last' = Exchange("post", "items", <<>>, body, r)
    /\ UNCHANGED <<users, idxItems, resource, deleted>>

PutItem(path, body) ==
    /\ resource = "items"
    /\ \E r \in {PutItemH(items, path, body)} :
           /\ items' = r.coll
           /\ last' = Exchange("put", "items", path, body, r)
    /\ UNCHANGED <<users, idxItems, resource, created, deleted>>

DeleteItem(path) ==
    /\ resource = "items"
    /\ \E r \in {DeleteItemH(items, path)} :
           /\ items' = r.coll
           /\ deleted' = (deleted \/ r.status = 200)
           /\ last' = Exchange("delete", "items", path, NoBody, r)
    /\ UNCHANGED <<users, idxItems, resource, created>>

IdxList ==
    /\ resource = "index"
    /\ last' = Exchange("list", "index", <<>>, NoBody, IdxListH(idxItems))
    /\ UNCHANGED <<users, items, idxItems, resource, created, deleted>>

IdxGet(segment) ==
    /\ resource = "index"
    /\ last' = Exchange("get", "index", segment, NoBody, IdxGetH(idxItems, segment))
    /\ UNCHANGED <<users, items, idxItems, resource, created, deleted>>

IdxPost(body) ==
    /\ resource = "index"
    /\ created < MaxCreates
    /\ \E r \in {IdxPostH(idxItems, body, Stamp("index"))} :
           /\ idxItems' = r.coll
           /\ created' = Created(r)
           /\ last' = Exchange("post", "index", <<>>, body, r)
    /\ UNCHANGED <<users, items, resource, deleted>>

IdxPut(segment, body) ==
    /\ resource = "index"
    /\ \E r \in {IdxPutH(idxItems, segment, body)} :
           /\ idxItems' = r.coll
           /\ last' = Exchange("put", "index", segment, body, r)
    /\ UNCHANGED <<users, items, resource, created, deleted>>

IdxDelete(path) ==
    /\ resource = "index"
    /\ \E r \in {IdxDeleteH(idxItems, path)} :
           /\ idxItems' = r.coll
           /\ deleted' = (deleted \/ r.status = 200)
           /\ last' = Exchange("delete", "index", path, NoBody, r)
    /\ UNCHANGED <<users, items, resource, created>>

Next ==
    \/ ListUsers
    \/ \E path \in Paths : GetUser(path)
    \/ \E body \in UserBodies : PostUser(body, MaxCreates)
    \/ \E path \in Paths, body \in UserBodies : PutUser(path, body)
    \/ \E path \in Paths : DeleteUser(path)
    \/ ListItems
    \/ \E path \in Paths : GetItem(path)
    \/ \E body \in ItemBodies : PostItem(body)
    \/ \E path \in Paths, body \in ItemBodies : PutItem(path, body)
    \/ \E path \in Paths : DeleteItem(path)
    \/ IdxList
    \/ \E segment \in IdxSegments : IdxGet(segment)
    \/ \E body \in IdxBodies : IdxPost(body)
    \/ \E segment \in IdxSegments, body \in IdxBodies : IdxPut(segment, body)
    \/ \E path \in Paths : IdxDelete(path)

Spec == Init /\ [][Next]_vars

\* runs of create requests on users only, from the seed
InitCreates == Init /\ resource = "users"

NextCreates == \E body \in UserBodies : PostUser(body, MaxRun)

SpecCreates == InitCreates /\ [][NextCreates]_vars

-----------------------------------------------------------------------------
(* Vocabulary of the properties *)

\* the three collections after a step
CollNext(kind) ==
    CASE kind = "users" -> users'
      [] kind = "items" -> items'
      [] kind = "index" -> idxItems'

Store == <<users, items, idxItems>>

\* a get-by-id request: GET /api/v1/<kind>/<path>
GetH(kind, coll, path) ==
    CASE kind = "users" -> GetUserH(coll, path)
      [] kind = "items" -> GetItemH(coll, path)
      [] kind = "index" -> IdxGetH(coll, path)

\* an update request: PUT /api/v1/<kind>/<path>
PutH(kind, coll, path, body) ==
    CASE kind = "users" -> PutUserH(coll, path, body)
      [] kind = "items" -> PutItemH(coll, path, body)
      [] kind = "index" -> IdxPutH(coll, path, body)

Bodies(kind) ==
    CASE kind = "users" -> UserBodies
      [] kind = "items" -> ItemBodies
      [] kind = "index" -> IdxBodies

\* a mandatory field of the kind is absent or empty in body
Invalid(kind, body) ==
    CASE kind = "users" -> \E f \in UserFields : body[f] \in {Undef, Str("")}
      [] kind = "items" -> body.name \in {Undef, Str("")}
                           \/ body.discription \in {Undef, Str("")}
      [] kind = "index" -> body.name \in {Undef, Str("")}

\* the entity a client expects from the fields it submitted and an id
Submitted(kind, body, id) ==
    CASE kind = "users" ->
           [id |-> id, username |-> body.username, firstName |-> body.firstName,
            lastName |-> body.lastName, email |-> body.email,
            password |-> body.password, phone |-> body.phone,
            userStatus |-> IF body.userStatus \in {Undef, Num(0)}
                           THEN Num(1) ELSE body.userStatus]
      [] kind = "items" ->
           [id |-> id, name |-> body.name, discription |-> body.discription]
      [] kind = "index" -> [id |-> id, name |-> body.name]

NotFound(kind) == IF kind = "users" THEN "User not found" ELSE "Item not found"

IdsDistinct(coll) ==
    \A i, j \in 1..Len(coll) : i # j => coll[i].id # coll[j].id

\* id n is the id of some entity of coll
HasId(coll, n) == \E i \in 1..Len(coll) : coll[i].id = n

\* i is the position of the first entity of coll with id n
FirstWithId(coll, n, i) ==
    /\ i \in 1..Len(coll)
    /\ coll[i].id = n
    /\ \A j \in 1..(i - 1) : coll[j].id # n

\* coll without its i-th element
Without(coll, i) == SubSeq(coll, 1, i - 1) \o SubSeq(coll, i + 1, Len(coll))

-----------------------------------------------------------------------------
(* Properties *)

\* C1: in every reachable state, no two entities of one collection have the
\* same id.
C1_UniqueIds == \A kind \in Kinds : IdsDistinct(Coll(kind))

\* C2: after any sequence of successful creates from the seed with no delete
\* in between, the ids of the collection (seed ids and assigned ids) are
\* pairwise distinct.
C2_CreatesKeepIdsDistinct ==
    ~deleted => \A kind \in Kinds : IdsDistinct(Coll(kind))

\* C3: right after a create answered 201 with id X, a get-by-id request for X
\* answers 200 with the submitted fields plus id X (userStatus defaulting to 1).
C3_CreateThenGet ==
    (last.op = "post" /\ last.status = 201) =>
        LET x == last.data[1].id
            r == GetH(last.kind, Coll(last.kind), NumToChars(x))
        IN  /\ r.status = 200
            /\ r.data = <<Submitted(last.kind, last.body, x)>>

\* C4: a delete request for an id X present in the collection answers 200,
\* makes the collection exactly one shorter, and a get-by-id request for X
\* right after it answers 404 not found.
C4_DeleteThenGet ==
    [][ (/\ last'.op = "delete"
         /\ ~ParseInt(last'.path).nan
         /\ HasId(Coll(last'.kind), ParseInt(last'.path).val))
        => LET kind == last'.kind
               x == ParseInt(last'.path).val
               r == GetH(kind, CollNext(kind), NumToChars(x))
           IN  /\ last'.status = 200
               /\ Len(CollNext(kind)) = Len(Coll(kind)) - 1
               /\ r.status = 404 ]_vars

PutFindsTarget(kind, coll, path) ==
    /\ kind # "index"
    /\ ~ParseInt(path).nan
    /\ HasId(coll, ParseInt(path).val)

C6_UpdateIdempotent ==
    \A path \in IdxSegments, body \in Bodies(resource) :
        LET once == PutH(resource, Coll(resource), path, body)
            twice == PutH(resource, once.coll, path, body)
        IN  once.status = 200 =>
                /\ twice.status = 200
                /\ twice.coll = once.coll
                /\ twice.data = once.data

\* reached: an update was answered 200 for a user whose payload carried the
\* falsy userStatus 0, and it changed the stored entity
C6_Witness ==
    /\ last.op = "put"
    /\ last.kind = "users"
    /\ last.status = 200
    /\ last.body.userStatus = Num(0)
    /\ last.data[1].userStatus = Num(1)
    /\ last.data[1].id = 10

\* C7: for every kind and both item variants, a get-by-id request whose path
\* identifier parses to the id of a stored entity answers 200 with the first
\* entity of that id; one whose identifier does not parse or matches no entity
\* answers 404 with the not-found message; the collection is unchanged.
C7_GetById ==
    \A kind \in Kinds, path \in Paths :
        LET coll == Coll(kind)
            p == ParseInt(path)
            r == GetH(kind, coll, path)
        IN  /\ r.coll = coll
            /\ IF ~p.nan /\ HasId(coll, p.val)
               THEN /\ r.status = 200
                    /\ \E i \in 1..Len(coll) :
                          FirstWithId(coll, p.val, i) /\ r.data = <<View(coll[i])>>
               ELSE /\ r.status = 404
                    /\ r.message = NotFound(kind)

\* entity e with every mutable field taken from body
Overwritten(kind, e, body) ==
    [f \in DOMAIN e |->
        IF f = "born" THEN e.born ELSE Submitted(kind, body, e.id)[f]]

\* C8: for every kind and both item variants, an update answers 404 when the
\* target id is not in the collection, 400 when it is and a mandatory field is
\* missing, and otherwise 200 after overwriting every mutable field of the
\* target; then the id, the size, the order and every other entity are
\* unchanged.
C8_Update ==
    [][ last'.op = "put"
        => LET kind == last'.kind
               coll == Coll(kind)
               p == ParseInt(last'.path)
           IN  IF p.nan \/ ~HasId(coll, p.val)
               THEN last'.status = 404 /\ Store' = Store
               ELSE IF Invalid(kind, last'.body)
               THEN last'.status = 400 /\ Store' = Store
               ELSE /\ last'.status = 200
                    /\ \E i \in 1..Len(coll) :
                          /\ FirstWithId(coll, p.val, i)
                          /\ CollNext(kind) =
                               [coll EXCEPT ![i] = Overwritten(kind, coll[i], last'.body)]
                          /\ last'.data =
                               <<View(Overwritten(kind, coll[i], last'.body))>> ]_vars

\* C9: a create with all mandatory fields present answers 201 with a new
\* entity whose id is the size of the collection before the request plus 1,
\* and the collection afterwards is the one before with that entity appended
\* as its last element (the first item created on the two-item seed gets 3).
C9_Create ==
    [][ (last'.op = "post" /\ ~Invalid(last'.kind, last'.body))
        => LET kind == last'.kind
               entity == Submitted(kind, last'.body, Len(Coll(kind)) + 1)
           IN  /\ last'.status = 201
               /\ last'.data = <<entity>>
               /\ Views(CollNext(kind)) = Append(Views(Coll(kind)), entity)
               /\ SubSeq(CollNext(kind), 1, Len(Coll(kind))) = Coll(kind)
               /\ (Coll(kind) = SeedItems => entity.id = 3) ]_vars

\* reached: the first create on the two-item seed was answered 201 with id 3
C9_Witness ==
    /\ last.op = "post"
    /\ last.kind = "items"
    /\ last.status = 201
    /\ last.data[1].id = 3
    /\ SubSeq(items, 1, 2) = SeedItems
    /\ Len(items) = 3

\* the entities stand in the order of their insertion
InsertionOrdered(coll) ==
    \A i, j \in 1..Len(coll) : i < j => coll[i].born < coll[j].born

\* C10: a successful delete removes only the first element whose id matches
\* and leaves every other entity, with its id and fields, in the same order;
\* a delete answered 404 leaves the collection unchanged; and in every
\* reachable state the entities stand in the order of their insertion.
C10_DeleteFrame ==
    /\ \A kind \in Kinds : InsertionOrdered(Coll(kind))
    /\ [][ /\ \A kind \in Kinds : InsertionOrdered(CollNext(kind))
           /\ last'.op = "delete" =>
                LET kind == last'.kind
                    coll == Coll(kind)
                    p == ParseInt(last'.path)
                IN  IF last'.status = 200
                    THEN /\ ~p.nan
                         /\ \E i \in 1..Len(coll) :
                               /\ FirstWithId(coll, p.val, i)
                               /\ CollNext(kind) = Without(coll, i)
                         /\ \A other \in Kinds \ {kind} :
                               CollNext(other) = Coll(other)
                    ELSE last'.status = 404 /\ Store' = Store ]_vars

\* reached: a delete answered 200 removed the first of two entities with the
\* same id, and the later one is still stored
C10_Witness ==
    /\ last.op = "delete"
    /\ last.status = 200
    /\ last.kind = "items"
    /\ HasId(items, ParseInt(last.path).val)
    /\ Len(items) >= 2
    /\ items[1].born > 1

\* a non-empty string or a non-zero number
Truthy(v) == (v.t = "string" /\ v.s # "") \/ (v.t = "number" /\ v.n # 0)

====
